---- MODULE Spec2Model ----
(***************************************************************************)
(* Model of stubby.py: StubGenerator walks a package tree depth first and  *)
(* ModuleStubGenerator writes one .pyi file per leaf module.               *)
(*                                                                         *)
(* Text is modelled as sequences of one-character strings, so that         *)
(* str.startswith, str.removeprefix and str.split are computed as Python   *)
(* computes them.  A path is a sequence of path components.  The content   *)
(* of a file is the sequence of the f.write calls that produced it, each   *)
(* call a record of the text fragments it formats.                         *)
(***************************************************************************)
EXTENDS Integers, Sequences, FiniteSets, TLC

VARIABLES tree, ns, flush_old, files, dirs, pc, stack, runs,
          pre, written, visited, last

vars == <<tree, ns, flush_old, files, dirs, pc, stack, runs,
          pre, written, visited, last>>

\* Number of successive generate calls explored.
MaxRuns == 2
\* Largest number of names in the namespace of a module under inspection.
MaxMembers == 2

----------------------------------------------------------------------------
\* Strings

Dot == <<".">>
Dunder == <<"_", "_">>
PyiExt == <<".", "p", "y", "i">>

\* str.startswith
StartsWith(s, p) == Len(s) >= Len(p) /\ SubSeq(s, 1, Len(p)) = p

\* str.removeprefix
RemovePrefix(s, p) ==
  IF StartsWith(s, p) THEN SubSeq(s, Len(p) + 1, Len(s)) ELSE s

\* str.split('.')
RECURSIVE Split(_)
Split(s) ==
  IF \A i \in 1..Len(s) : s[i] # "."
  THEN <<s>>
  ELSE LET i == CHOOSE j \in 1..Len(s) :
                  s[j] = "." /\ \A k \in 1..(j - 1) : s[k] # "."
       IN <<SubSeq(s, 1, i - 1)>> \o Split(SubSeq(s, i + 1, Len(s)))

\* Code points of the characters used in member names.
Ord(c) ==
  CASE c = "A" -> 65  [] c = "C" -> 67  [] c = "_" -> 95
    [] c = "b" -> 98  [] c = "d" -> 100 [] c = "f" -> 102
    [] c = "g" -> 103 [] c = "k" -> 107 [] c = "m" -> 109
    [] c = "n" -> 110 [] c = "p" -> 112 [] c = "v" -> 118
    [] c = "x" -> 120

\* s < t on Python strings
RECURSIVE StrLess(_, _)
StrLess(s, t) ==
  IF t = <<>> THEN FALSE
  ELSE IF s = <<>> THEN TRUE
  ELSE IF Head(s) = Head(t) THEN StrLess(Tail(s), Tail(t))
  ELSE Ord(Head(s)) < Ord(Head(t))

----------------------------------------------------------------------------
\* The inspected package: module names, search paths, namespaces

P == <<"p">>
A == <<"a">>
B == <<"b">>
M == <<"m">>
S == <<"s">>
Z == <<"z">>

\* A child entry of a package directory, as pkgutil.iter_modules finds it.
Child(base, ispkg) == [base |-> base, ispkg |-> ispkg]

\* One value of a module namespace with what the inspect predicates, the
\* signature computation and type() report about it.
Member(name, c, f, m, b, sigok, sig, modname, tn, tm) ==
  [name |-> name, isclass |-> c, isfunction |-> f, ismodule |-> m,
   isbuiltin |-> b, sigok |-> sigok, sig |-> sig, modname |-> modname,
   typename |-> tn, typemodule |-> tm]

ClassA   == Member(<<"A">>, TRUE, FALSE, FALSE, FALSE, TRUE, "", <<>>, "type", "builtins")
FuncF    == Member(<<"f">>, FALSE, TRUE, FALSE, FALSE, TRUE, "(a, b=1)", <<>>, "function", "builtins")
FuncG    == Member(<<"g">>, FALSE, TRUE, FALSE, FALSE, FALSE, "", <<>>, "function", "builtins")
ModM     == Member(<<"m">>, FALSE, FALSE, TRUE, FALSE, TRUE, "", <<"o", "s">>, "module", "builtins")
BuiltinB == Member(<<"b">>, FALSE, FALSE, FALSE, TRUE, TRUE, "", <<>>, "builtin_function_or_method", "builtins")
ValX     == Member(<<"x">>, FALSE, FALSE, FALSE, FALSE, TRUE, "", <<>>, "int", "builtins")
ValN     == Member(<<"n">>, FALSE, FALSE, FALSE, FALSE, TRUE, "", <<>>, "NoneType", "builtins")
ValD     == Member(<<"d">>, FALSE, FALSE, FALSE, FALSE, TRUE, "", <<>>, "Decimal", "decimal")
ValP     == Member(<<"_", "p">>, FALSE, FALSE, FALSE, FALSE, TRUE, "", <<>>, "str", "builtins")
DunderV  == Member(<<"_", "_", "v">>, FALSE, FALSE, FALSE, FALSE, TRUE, "", <<>>, "str", "builtins")
DunderC  == Member(<<"_", "_", "C">>, TRUE, FALSE, FALSE, FALSE, TRUE, "", <<>>, "type", "builtins")
DunderM  == Member(<<"_", "_", "m">>, FALSE, FALSE, TRUE, FALSE, TRUE, "", <<"s", "y", "s">>, "module", "builtins")
\* A class whose metaclass answers isinstance(., FunctionType) too.
MultiK   == Member(<<"k">>, TRUE, TRUE, FALSE, FALSE, FALSE, "", <<>>, "Meta", "p")

Pool == {ClassA, FuncF, FuncG, ModM, BuiltinB, ValX, ValN, ValD, ValP,
         DunderV, DunderC, DunderM, MultiK}

FixedNs == {ClassA, ValX}

NsChoices == {n \in SUBSET Pool : Cardinality(n) <= MaxMembers}

TreeFlat ==
  [root |-> P,
   dir |-> (P :> <<Child(A, FALSE), Child(B, FALSE)>>),
   bad |-> {},
   fixed |-> {P \o Dot \o A}]

TreeNest ==
  [root |-> P,
   dir |-> (P :> <<Child(A, FALSE), Child(S, TRUE)>>)
           @@ ((P \o Dot \o S) :> <<Child(M, FALSE)>>),
   bad |-> {},
   fixed |-> {P \o Dot \o A}]

TreeDeep ==
  [root |-> P,
   dir |-> (P :> <<Child(P, TRUE)>>)
           @@ ((P \o Dot \o P) :> <<Child(A, FALSE), Child(P, TRUE)>>)
           @@ ((P \o Dot \o P \o Dot \o P) :> <<Child(P, FALSE)>>),
   bad |-> {},
   fixed |-> {P \o Dot \o P \o Dot \o A}]

TreeEmpty ==
  [root |-> P,
   dir |-> (P :> <<Child(S, TRUE)>>) @@ ((P \o Dot \o S) :> <<>>),
   bad |-> {},
   fixed |-> {}]

TreeBadLeaf ==
  [root |-> P,
   dir |-> (P :> <<Child(A, FALSE), Child(S, TRUE), Child(Z, FALSE)>>)
           @@ ((P \o Dot \o S) :> <<Child(M, FALSE), Child(B, FALSE)>>),
   bad |-> {P \o Dot \o S \o Dot \o B},
   fixed |-> {P \o Dot \o A, P \o Dot \o S \o Dot \o M,
              P \o Dot \o S \o Dot \o B, P \o Dot \o Z}]

TreeBadPkg ==
  [root |-> P,
   dir |-> (P :> <<Child(A, FALSE), Child(S, TRUE), Child(Z, FALSE)>>)
           @@ ((P \o Dot \o S) :> <<Child(M, FALSE)>>),
   bad |-> {P \o Dot \o S},
   fixed |-> {P \o Dot \o A, P \o Dot \o S \o Dot \o M, P \o Dot \o Z}]

Trees == {TreeFlat, TreeNest, TreeDeep, TreeEmpty, TreeBadLeaf, TreeBadPkg}

\* name.rpartition('.')[0]
RECURSIVE Parent(_)
Parent(name) ==
  IF name = <<>> THEN <<>>
  ELSE IF name[Len(name)] = "." THEN SubSeq(name, 1, Len(name) - 1)
  ELSE Parent(SubSeq(name, 1, Len(name) - 1))

\* inspect.getmembers: the (name, value) pairs sorted by name
RECURSIVE GetMembers(_)
GetMembers(space) ==
  IF space = {} THEN <<>>
  ELSE LET m == CHOOSE x \in space :
                  \A o \in space \ {x} : StrLess(x.name, o.name)
       IN <<m>> \o GetMembers(space \ {m})

\* The namespace of the module object of a leaf module.
Namespace(t, n, name) == IF name \in t.fixed THEN FixedNs ELSE n

\* The module object importlib.import_module returns: __package__ is the
\* module's own name for a package and the parent's name otherwise.
ImportModule(t, n, name, ispkg) ==
  [name |-> name,
   package |-> IF ispkg THEN name ELSE Parent(name),
   path |-> name,
   members |-> IF ispkg THEN {} ELSE Namespace(t, n, name)]

\* pkgutil.iter_modules(path, prefix)
IterModules(t, path, prefix) ==
  [i \in 1..Len(t.dir[path]) |->
     [name |-> prefix \o t.dir[path][i].base, ispkg |-> t.dir[path][i].ispkg]]

----------------------------------------------------------------------------
\* The file system

O == <<"o">>
U == <<"u">>
Q == <<"q">>
OutputFolder == <<O>>

IsPrefix(p, q) == Len(p) <= Len(q) /\ SubSeq(q, 1, Len(p)) = p

\* os.path.dirname
DirName(path) == SubSeq(path, 1, Len(path) - 1)

\* os.path.exists
Exists(f, d, path) == path \in d \/ path \in DOMAIN f

\* shutil.rmtree, with a walk that unlinks the files of the tree and removes
\* only the directories that were empty when the walk started
RmTreeTopDown(f, d, root) ==
  [files |-> [p \in {q \in DOMAIN f : ~IsPrefix(root, q)} |-> f[p]],
   dirs |-> {q \in d : ~IsPrefix(root, q)
                       \/ \E r \in (DOMAIN f) \cup d :
                            IsPrefix(q, r) /\ r # q}]

\* shutil.rmtree that unlinks only the files directly in root
RmTreeShallow(f, d, root) ==
  [files |-> [p \in {q \in DOMAIN f : DirName(q) # root} |-> f[p]],
   dirs |-> d]

\* shutil.rmtree
RmTree(f, d, root) ==
  [files |-> [p \in {q \in DOMAIN f : ~IsPrefix(root, q)} |-> f[p]],
   dirs |-> {q \in d : ~IsPrefix(root, q)}]

\* os.makedirs: creates the missing ancestors in order and stops at the
\* first one that cannot be a directory because a file has its name.
MakeDirs(f, d, folder) ==
  LET blocked == {k \in 1..Len(folder) : SubSeq(folder, 1, k) \in DOMAIN f}
      upto == IF blocked = {} THEN Len(folder)
              ELSE (CHOOSE k \in blocked : \A j \in blocked : k <= j) - 1
  IN [dirs |-> d \cup {SubSeq(folder, 1, k) : k \in 1..upto},
      ok |-> blocked = {}]

----------------------------------------------------------------------------
\* ModuleStubGenerator

\* The text of one f.write call: which format string it is and what the
\* format fields hold.
Piece(kind, name, arg, mod, flag) ==
  [kind |-> kind, name |-> name, arg |-> arg, mod |-> mod, flag |-> flag]

\* str(bool)
BoolStr(b) == IF b THEN "True" ELSE "False"

\* "# Auto generatded stub from stubby.py <__name__>\n\n"
Header(name) == Piece("header", name, "", "", "")

\* '\n\n'
Blank == Piece("blank", <<>>, "", "", "")

\* no member is skipped
IsSkippedNever(name) == FALSE

\* name.startswith('__')
IsSkipped(name) == StartsWith(name, Dunder)

\* obj_type.__class__.__module__, where obj_type is the str holding the
\* type's name: the module that defines str
ObjModule(member) == "builtins"

\* the else branch: "<name>: <obj_type> # builtin: <obj_module> <is_builtin>"
AttrLine(member) ==
  LET obj_type == IF member.typename = "NoneType" THEN "None"
                  ELSE member.typename
      obj_module == ObjModule(member)
      is_builtin == obj_module = "builtins"
  IN Piece("attr", member.name, obj_type, obj_module, BoolStr(is_builtin))

\* the chain with the function test ahead of the class test
BlockFunctionFirst(member) ==
  IF member.isfunction THEN Piece("def", member.name, member.sig, "", "")
  ELSE IF member.isclass THEN Piece("class", member.name, "", "", "")
  ELSE IF member.ismodule THEN Piece("import", member.modname, "", "", "")
  ELSE IF member.isbuiltin THEN Piece("builtin", member.name, "", "", "")
  ELSE AttrLine(member)

\* the if/elif chain over the inspect predicates
Block(member) ==
  IF member.isclass THEN Piece("class", member.name, "", "", "")
  ELSE IF member.isfunction THEN Piece("def", member.name, member.sig, "", "")
  ELSE IF member.ismodule THEN Piece("import", member.modname, "", "", "")
  ELSE IF member.isbuiltin THEN Piece("builtin", member.name, "", "", "")
  ELSE AttrLine(member)

\* inspect.signature(member) raises: evaluated only in the function branch
SignatureRaises(member) ==
  ~member.isclass /\ member.isfunction /\ ~member.sigok

\* the loop over self._members: what is written until it ends or raises
RECURSIVE WriteMembers(_, _)
WriteMembers(members, acc) ==
  IF members = <<>> THEN [content |-> acc, ok |-> TRUE]
  ELSE LET member == Head(members) IN
    IF IsSkipped(member.name) THEN WriteMembers(Tail(members), acc)
    ELSE IF SignatureRaises(member) THEN [content |-> acc, ok |-> FALSE]
    ELSE WriteMembers(Tail(members), acc \o <<Block(member), Blank>>)

\* the path without the package directories
OutputFileFlat(obj) ==
  OutputFolder \o <<RemovePrefix(obj.name, obj.package \o Dot) \o PyiExt>>

\* output_file
OutputFile(obj) ==
  LET package == obj.package
      module_name == RemovePrefix(obj.name, package \o Dot)
  IN OutputFolder \o Split(package) \o <<module_name \o PyiExt>>

\* open(output_file, 'a'): the old content is kept
OpenAppend(f, path) == IF path \in DOMAIN f THEN f[path] ELSE <<>>

\* open(output_file, 'w'): the content the file starts with
OpenWrite(f, path) == <<>>

\* ModuleStubGenerator(obj).generate(output_folder) on the file system (f, d):
\* the file system it leaves, the file it opened and whether it returned
\* (ok) or raised.
GenerateModule(obj, f, d) ==
  LET output_file == OutputFile(obj)
      root_folder == DirName(output_file)
      made == IF Exists(f, d, root_folder)
              THEN [dirs |-> d, ok |-> TRUE]
              ELSE MakeDirs(f, d, root_folder)
      canopen == root_folder \in made.dirs /\ output_file \notin made.dirs
      out == WriteMembers(GetMembers(obj.members),
                          OpenWrite(f, output_file) \o <<Header(obj.name)>>)
  IN IF ~made.ok \/ ~canopen
     THEN [files |-> f, dirs |-> made.dirs, opened |-> {}, ok |-> FALSE]
     ELSE [files |-> [p \in DOMAIN f \cup {output_file} |->
                        IF p = output_file THEN out.content ELSE f[p]],
           dirs |-> made.dirs, opened |-> {output_file}, ok |-> out.ok]

----------------------------------------------------------------------------
\* StubGenerator

Snapshot(f, d) == [files |-> f, dirs |-> d]

\* One frame of _generate_stubs: the package's search path, the name prefix
\* and the position of the for loop.
Frame(path, package) == [path |-> path, package |-> package, i |-> 1]

Top == stack[Len(stack)]

Current == IterModules(tree, Top.path, Top.package \o Dot)[Top.i]

Advance(st) == [st EXCEPT ![Len(st)].i = @ + 1]

Idle == pc \in {"idle", "done", "error"}

StaleFile == <<Piece("old", <<>>, "", "", "")>>

\* What the output directory holds before the first call.
InitialDisks ==
  LET outside == <<Z>> :> StaleFile
      pa == <<O, P, A \o PyiExt>>
      pz == <<O, P, Z \o Z \o PyiExt>>
  IN { Snapshot(outside, {}),
       Snapshot(outside, {<<O>>}),
       Snapshot(outside @@ (<<O, U>> :> StaleFile) @@ (<<O, Q, U>> :> StaleFile),
                {<<O>>, <<O, Q>>}),
       Snapshot(outside @@ (pa :> StaleFile) @@ (pz :> StaleFile),
                {<<O>>, <<O, P>>}),
       Snapshot(outside @@ (<<O, P>> :> StaleFile), {<<O>>}) }

UsesNs(t) ==
  \E path \in DOMAIN t.dir : \E i \in 1..Len(t.dir[path]) :
     ~t.dir[path][i].ispkg /\ (path \o Dot \o t.dir[path][i].base) \notin t.fixed

Init ==
  /\ tree \in Trees
  /\ ns \in IF UsesNs(tree) THEN NsChoices ELSE {{}}
  /\ flush_old \in BOOLEAN
  /\ \E disk \in InitialDisks : files = disk.files /\ dirs = disk.dirs
  /\ pc = "idle"
  /\ stack = <<>>
  /\ runs = 0
  /\ pre = Snapshot(files, dirs)
  /\ written = {}
  /\ visited = <<>>
  /\ last = <<>>

\* if flush_old and os.path.exists(output_folder)
ShouldFlush(f, d) == flush_old /\ Exists(f, d, OutputFolder)

\* StubGenerator.generate up to the first iteration of the walk
Generate ==
  /\ Idle
  /\ runs < MaxRuns
  /\ LET disk == IF ShouldFlush(files, dirs)
                 THEN RmTree(files, dirs, OutputFolder)
                 ELSE Snapshot(files, dirs)
     IN files' = disk.files /\ dirs' = disk.dirs
  /\ pre' = Snapshot(files, dirs)
  /\ runs' = runs + 1
  /\ stack' = <<Frame(tree.root, tree.root)>>
  /\ pc' = "running"
  /\ written' = {}
  /\ visited' = <<>>
  /\ UNCHANGED <<tree, ns, flush_old, last>>

\* an exception leaves every frame and ends the call
Raise ==
  /\ pc' = "error"
  /\ stack' = <<>>
  /\ last' = Append(last, Snapshot(files', dirs'))

\* the same exception caught and the loop carried on
ImportFailSkip ==
  /\ pc = "running"
  /\ Top.i <= Len(tree.dir[Top.path])
  /\ Current.name \in tree.bad
  /\ visited' = Append(visited, Current.name)
  /\ stack' = Advance(stack)
  /\ UNCHANGED <<tree, ns, flush_old, runs, pre, written, files, dirs, pc, last>>

\* importlib.import_module(modinfo.name) raises
ImportFail ==
  /\ pc = "running"
  /\ Top.i <= Len(tree.dir[Top.path])
  /\ Current.name \in tree.bad
  /\ visited' = Append(visited, Current.name)
  /\ UNCHANGED <<tree, ns, flush_old, runs, pre, written, files, dirs>>
  /\ Raise

\* a subpackage is rendered like a leaf module before it is entered
ImportPackageRendered ==
  /\ pc = "running"
  /\ Top.i <= Len(tree.dir[Top.path])
  /\ Current.name \notin tree.bad
  /\ Current.ispkg
  /\ LET loaded == ImportModule(tree, ns, Current.name, TRUE)
         res == GenerateModule(loaded, files, dirs)
     IN /\ stack' = Append(Advance(stack), Frame(loaded.path, loaded.package))
        /\ files' = res.files
        /\ dirs' = res.dirs
        /\ written' = written \cup res.opened
  /\ visited' = Append(visited, Current.name)
  /\ UNCHANGED <<tree, ns, flush_old, runs, pre, pc, last>>

\* modinfo.ispkg: the recursive call on the imported subpackage
ImportPackage ==
  /\ pc = "running"
  /\ Top.i <= Len(tree.dir[Top.path])
  /\ Current.name \notin tree.bad
  /\ Current.ispkg
  /\ LET loaded == ImportModule(tree, ns, Current.name, TRUE)
     IN stack' = Append(Advance(stack), Frame(loaded.path, loaded.package))
  /\ visited' = Append(visited, Current.name)
  /\ UNCHANGED <<tree, ns, flush_old, runs, pre, written, files, dirs, pc, last>>

\* a leaf module: ModuleStubGenerator(loaded).generate(output_folder)
RenderLeaf ==
  /\ pc = "running"
  /\ Top.i <= Len(tree.dir[Top.path])
  /\ Current.name \notin tree.bad
  /\ ~Current.ispkg
  /\ LET loaded == ImportModule(tree, ns, Current.name, FALSE)
         res == GenerateModule(loaded, files, dirs)
     IN /\ files' = res.files
        /\ dirs' = res.dirs
        /\ written' = written \cup res.opened
        /\ IF res.ok
           THEN /\ stack' = Advance(stack)
                /\ UNCHANGED <<pc, last>>
           ELSE Raise
  /\ visited' = Append(visited, Current.name)
  /\ UNCHANGED <<tree, ns, flush_old, runs, pre>>

\* the for loop of a frame is exhausted: _generate_stubs returns
Return ==
  /\ pc = "running"
  /\ Top.i > Len(tree.dir[Top.path])
  /\ stack' = SubSeq(stack, 1, Len(stack) - 1)
  /\ IF Len(stack) = 1
     THEN pc' = "done" /\ last' = Append(last, Snapshot(files, dirs))
     ELSE UNCHANGED <<pc, last>>
  /\ UNCHANGED <<tree, ns, flush_old, runs, pre, written, visited, files, dirs>>

Next == Generate \/ ImportFail \/ ImportPackage \/ RenderLeaf \/ Return

Spec == Init /\ [][Next]_vars

TypeOK ==
  /\ pc \in {"idle", "running", "done", "error"}
  /\ runs \in 0..MaxRuns
  /\ (pc = "running") = (stack # <<>>)
  /\ Len(last) = IF pc = "running" THEN runs - 1 ELSE runs

----------------------------------------------------------------------------
\* The package tree as lists of name segments, and what a run is to leave

Range(seq) == {seq[i] : i \in DOMAIN seq}

RECURSIVE Dotted(_)
Dotted(segs) ==
  IF Len(segs) = 1 THEN segs[1]
  ELSE Dotted(SubSeq(segs, 1, Len(segs) - 1)) \o Dot \o segs[Len(segs)]

RECURSIVE LeafSegs(_, _)
LeafSegs(t, segs) ==
  LET kids == t.dir[Dotted(segs)]
  IN UNION {IF kids[i].ispkg
            THEN LeafSegs(t, Append(segs, kids[i].base))
            ELSE {Append(segs, kids[i].base)} : i \in DOMAIN kids}

Leaves == LeafSegs(tree, <<tree.root>>)

RECURSIVE PackageSegs(_, _)
PackageSegs(t, segs) ==
  LET kids == t.dir[Dotted(segs)]
  IN {segs} \cup UNION {IF kids[i].ispkg
                        THEN PackageSegs(t, Append(segs, kids[i].base))
                        ELSE {} : i \in DOMAIN kids}

Packages == PackageSegs(tree, <<tree.root>>)

\* depth-first order of discovery
RECURSIVE WalkFrom(_, _, _)
WalkFrom(t, segs, i) ==
  LET kids == t.dir[Dotted(segs)]
  IN IF i > Len(kids) THEN <<>>
     ELSE LET kid == Append(segs, kids[i].base)
          IN <<Dotted(kid)>>
             \o (IF kids[i].ispkg THEN WalkFrom(t, kid, 1) ELSE <<>>)
             \o WalkFrom(t, segs, i + 1)

Walk == WalkFrom(tree, <<tree.root>>, 1)

StubPath(segs) ==
  OutputFolder \o SubSeq(segs, 1, Len(segs) - 1) \o <<segs[Len(segs)] \o PyiExt>>

StubPaths == {StubPath(l) : l \in Leaves}

UnderOut(path) == IsPrefix(OutputFolder, path) /\ path # OutputFolder

SpaceOf(l) == Namespace(tree, ns, Dotted(l))

Visible(space) == {m \in space : ~StartsWith(m.name, Dunder)}

\* the closed variant: one tag per member
KindOf(m) ==
  CASE m.isclass -> "class"
    [] ~m.isclass /\ m.isfunction -> "def"
    [] ~m.isclass /\ ~m.isfunction /\ m.ismodule -> "import"
    [] ~m.isclass /\ ~m.isfunction /\ ~m.ismodule /\ m.isbuiltin -> "builtin"
    [] OTHER -> "attr"

\* what the block of a member names
Declared(m) == IF KindOf(m) = "import" THEN m.modname ELSE m.name

\* position of a member among the rendered ones, by name
Rank(m, space) ==
  1 + Cardinality({o \in Visible(space) : StrLess(o.name, m.name)})

Raising(space) == {m \in Visible(space) : KindOf(m) = "def" /\ ~m.sigok}

\* number of members rendered before the renderer ends or raises
Cut(space) ==
  IF Raising(space) = {} THEN Cardinality(Visible(space))
  ELSE (CHOOSE k \in {Rank(m, space) : m \in Raising(space)} :
          \A m \in Raising(space) : k <= Rank(m, space)) - 1

IsBlock(piece) == piece.kind \in {"class", "def", "import", "builtin", "attr"}

Fails(name) ==
  \/ name \in tree.bad
  \/ \E l \in Leaves : Dotted(l) = name /\ Raising(SpaceOf(l)) # {}

StartedEmpty ==
  /\ \A p \in DOMAIN pre.files : ~UnderOut(p)
  /\ \A d \in pre.dirs : ~UnderOut(d)

----------------------------------------------------------------------------
\* Claims

\* C1: a completed run started on an empty or absent output directory leaves
\* exactly one stub file per leaf module and no other file (none for the root
\* package or a subpackage), each non-empty and beginning with the header
\* that names its module.
C1_OneStubPerLeaf ==
  (pc = "done" /\ StartedEmpty) =>
    /\ {p \in DOMAIN files : UnderOut(p)} = StubPaths
    /\ Cardinality(StubPaths) = Cardinality(Leaves)
    /\ \A l \in Leaves :
         /\ files[StubPath(l)] # <<>>
         /\ files[StubPath(l)][1] = Piece("header", Dotted(l), "", "", "")
    /\ \A k \in Packages : StubPath(k) \notin DOMAIN files

C1_Witness ==
  /\ pc = "done" /\ StartedEmpty
  /\ Cardinality(Leaves) >= 2 /\ Cardinality(Packages) >= 3

\* C2: with flush_old set and the output directory existing beforehand, the
\* whole old subtree is gone before the first stub is written: from the start
\* of the run on, every file under the output directory was written by this
\* run and every directory under it leads to such a file.
C2_FlushRemovesOld ==
  (flush_old /\ pc # "idle" /\ Exists(pre.files, pre.dirs, OutputFolder)) =>
    /\ \A p \in DOMAIN files : UnderOut(p) => p \in written
    /\ \A p \in DOMAIN pre.files : (UnderOut(p) /\ p \notin written) =>
         p \notin DOMAIN files
    /\ \A d \in dirs : IsPrefix(OutputFolder, d) =>
         \E w \in written : IsPrefix(d, w)

C2_Witness ==
  /\ flush_old /\ pc = "done" /\ written # {}
  /\ <<O, U>> \in DOMAIN pre.files /\ <<O, Q, U>> \in DOMAIN pre.files
  /\ <<O, Q>> \in pre.dirs

\* C3: with flush enabled, the output tree (paths and contents) left by a run
\* is identical to the one left by the run before it.
C3_Idempotent ==
  flush_old => \A i \in 2..Len(last) : last[i] = last[i - 1]

C3_Witness ==
  /\ flush_old /\ Len(last) = 2 /\ pc = "done"
  /\ \E p \in DOMAIN last[2].files : UnderOut(p)
  /\ <<O, U>> \notin DOMAIN files

\* C4: the stub of a leaf module is at <output root>/<one directory per
\* segment of its package name>/<bare name>.pyi, and the directories on that
\* path exist once the file is written.
C4_StubPath ==
  /\ written \subseteq StubPaths
  /\ \A l \in Leaves :
       /\ StubPath(l) \in written => Dotted(l) \in Range(visited)
       /\ \A i \in 1..Len(visited) :
            (visited[i] = Dotted(l) /\ (i < Len(visited) \/ pc # "error")) =>
              /\ StubPath(l) \in written
              /\ StubPath(l) \in DOMAIN files
              /\ \A k \in 1..Len(l) : SubSeq(StubPath(l), 1, k) \in dirs

C4_Witness ==
  /\ pc = "done"
  /\ <<O, P, P, P, P \o PyiExt>> \in written
  /\ {<<O>>, <<O, P>>, <<O, P, P>>, <<O, P, P, P>>} \subseteq dirs
  /\ <<O>> \notin pre.dirs

\* C5: no written file holds a block declaring a member whose name begins
\* with the double underscore, whatever the member's kind.
C5_NoDunder ==
  \A l \in Leaves : StubPath(l) \in written =>
    \A m \in SpaceOf(l) : StartsWith(m.name, Dunder) =>
      \A i \in DOMAIN files[StubPath(l)] :
        LET piece == files[StubPath(l)][i]
        IN IsBlock(piece) =>
             /\ piece.name # m.name
             /\ (piece.kind = "import" /\ piece.name = m.modname) =>
                  \E o \in Visible(SpaceOf(l)) : Declared(o) = m.modname

C5_Witness ==
  /\ pc = "done"
  /\ \E l \in Leaves :
       /\ StubPath(l) \in written
       /\ \E m \in SpaceOf(l) : StartsWith(m.name, Dunder)
       /\ \E m \in SpaceOf(l) : ~StartsWith(m.name, Dunder)

\* C6: after the header, a stub holds for each member whose name does not
\* begin with the double underscore exactly one block followed by a blank
\* line, in member-name order, the block being the one of the first rule
\* that matches in the order class, function, module, builtin, value; a
\* renderer that raised has written the blocks of the members before the
\* one it raised on.
C6_OneBlockPerMember ==
  \A l \in Leaves : StubPath(l) \in written =>
    LET content == files[StubPath(l)]
        space == SpaceOf(l)
    IN /\ Len(content) = 1 + 2 * Cut(space)
       /\ \A m \in Visible(space) : Rank(m, space) <= Cut(space) =>
            /\ content[2 * Rank(m, space)].kind = KindOf(m)
            /\ content[2 * Rank(m, space)].name = Declared(m)
            /\ content[2 * Rank(m, space) + 1] = Blank

C6_Witness ==
  /\ pc = "done"
  /\ MultiK \in ns
  /\ \E l \in Leaves :
       /\ StubPath(l) \in written
       /\ SpaceOf(l) = ns
       /\ Cardinality(Visible(ns)) = 2

\* C7: the attribute line of a plain value names the module that defines the
\* value's type and a flag that is true exactly when that module is builtins.
C7_AttrNamesDefiningModule ==
  \A l \in Leaves : StubPath(l) \in written =>
    \A m \in Visible(SpaceOf(l)) : KindOf(m) = "attr" =>
      \A i \in DOMAIN files[StubPath(l)] :
        LET piece == files[StubPath(l)][i]
        IN (piece.kind = "attr" /\ piece.name = m.name) =>
             /\ piece.mod = m.typemodule
             /\ piece.flag = BoolStr(m.typemodule = "builtins")

\* C8: after a generate call that completes without error the output
\* directory exists.
C8_OutputFolderExists ==
  pc = "done" => OutputFolder \in dirs

\* C9: nothing is caught: the modules imported in a run are an initial part
\* of the discovery order, a module whose import or signature computation
\* fails is the last of them and ends the run in error, nothing is written
\* for a module not yet reached, and the stubs written before the failure
\* are on disk in full.
C9_AbortKeepsEarlier ==
  /\ Len(visited) <= Len(Walk)
  /\ visited = SubSeq(Walk, 1, Len(visited))
  /\ \A i \in 1..Len(visited) :
       Fails(visited[i]) => (i = Len(visited) /\ pc = "error")
  /\ \A l \in Leaves :
       /\ StubPath(l) \in written => Dotted(l) \in Range(visited)
       /\ \A i \in 1..(Len(visited) - 1) :
            (pc = "error" /\ visited[i] = Dotted(l)) =>
              /\ StubPath(l) \in DOMAIN files
              /\ Len(files[StubPath(l)])
                   = 1 + 2 * Cardinality(Visible(SpaceOf(l)))

C9_Witness ==
  /\ pc = "error"
  /\ visited[Len(visited)] \in tree.bad
  /\ written # {}
  /\ Len(visited) < Len(Walk)
  /\ \A w \in written : w \in DOMAIN files

\* C10: with flush_old false, a file that was there before the run and is not
\* at the stub path of a leaf module of the tree is unchanged, and a file
\* written at a stub path holds what the renderer writes on an empty disk,
\* whatever it held before; a completed run has written every stub path.
C10_FrameWithoutFlush ==
  (~flush_old /\ pc # "idle") =>
    /\ \A p \in DOMAIN pre.files : p \notin StubPaths =>
         p \in DOMAIN files /\ files[p] = pre.files[p]
    /\ \A l \in Leaves : StubPath(l) \in written =>
         LET content == files[StubPath(l)]
         IN /\ content[1] = Piece("header", Dotted(l), "", "", "")
            /\ Len(content) = 1 + 2 * Cut(SpaceOf(l))
            /\ \A i \in DOMAIN content : content[i].kind # "old"
    /\ pc = "done" => StubPaths \subseteq written

C10_Witness ==
  /\ ~flush_old /\ pc = "done"
  /\ <<O, P, A \o PyiExt>> \in DOMAIN pre.files
  /\ <<O, P, A \o PyiExt>> \in written
  /\ <<O, P, Z \o Z \o PyiExt>> \in DOMAIN files
  /\ pre.files[<<O, P, A \o PyiExt>>] = StaleFile

====
